---- MODULE Spec2Model ----
(***************************************************************************)
(* Model of pynsot/cli.py: the command loader (CLI.get_command) and the    *)
(* resource controller (App.add / list / remove / update) running against  *)
(* one remote NSoT store.  Spec runs one command line after the other;     *)
(* PairSpec runs two command lines interleaved, each with its own          *)
(* controller, against the shared store.                                   *)
(***************************************************************************)
EXTENDS Integers, Sequences, FiniteSets, TLC

\* ------------------------------------------------------------------ bounds
\* Number of object identifiers the remote store can hand out per resource.
MaxId == 1

\* ------------------------------------------------------- domains of values
\* Python None.
None == "None"

\* The value a server gives a field that a PUT body leaves out.
Empty == ""

\* Field values a user can type on the command line.
Values == {"x", "y"}

\* Names are sequences of characters, so that singular can strip the "s".
sites == <<"s", "i", "t", "e", "s">>
devices == <<"d", "e", "v", "i", "c", "e", "s">>
broken == <<"b", "r", "o", "k", "e", "n">>
nocli == <<"n", "o", "c", "l", "i">>
needs == <<"n", "e", "e", "d", "s">>
nosuch == <<"n", "o", "s", "u", "c", "h">>

\* The two command lines running against the store.
Invocations == {1, 2}

IdName == <<"1", "2", "3", "4">>
Ids == {IdName[n] : n \in 1..MaxId}

\* ------------------------------------------------------------ cli.py data
\* ACTION_MAP: human-readable action name -> API call.
ACTION_MAP == [add |-> "post", list |-> "get", remove |-> "delete", update |-> "patch"]

\* FIELDS_MAP: object field name -> display header.
FIELDS_MAP == [id |-> "ID", name |-> "Name", description |-> "Description"]

\* The content of CMD_FOLDER as the import system sees it: what importing
\* pynsot.commands.cmd_<name> does.  A name outside the domain has no file.
\*   ok            the module imports and defines cli
\*   import_error  the module imports something that is not installed
\*   syntax_error  the module does not compile
\*   no_cli        the module imports but defines no cli
CMD_FOLDER == (sites :> "ok") @@ (devices :> "ok") @@ (broken :> "syntax_error")
              @@ (nocli :> "no_cli") @@ (needs :> "import_error")

CommandNames == DOMAIN CMD_FOLDER \cup {nosuch}

\* --------------------------------------------------------- the remote API
\* The fields (besides id) the server keeps for each resource, in key order.
Schema(rn) ==
    IF rn = sites THEN <<"name", "description">> ELSE <<"hostname", "description">>

ResourceNames == {sites, devices}

SeqRange(s) == {s[n] : n \in 1..Len(s)}

Restrict(f, S) == [k \in S |-> f[k]]

\* A remote call that fails raises one of these.  slumber raises
\* HttpClientError for a 4xx answer and HttpServerError for a 5xx answer, both
\* carrying the response; a ClientError of pynsot.client is an HttpClientError
\* that may carry no response; requests raises ConnectionError when the
\* server cannot be reached.
NoResponse == [status_code |-> 0, reason |-> None]

ErrHttp4xx == [cls |-> "HttpClientError", has_response |-> TRUE,
               response |-> [status_code |-> 400, reason |-> "Bad Request"]]
Err404 == [cls |-> "HttpClientError", has_response |-> TRUE,
           response |-> [status_code |-> 404, reason |-> "Not Found"]]
ErrClient == [cls |-> "HttpClientError", has_response |-> FALSE, response |-> NoResponse]
ErrHttp5xx == [cls |-> "HttpServerError", has_response |-> TRUE,
               response |-> [status_code |-> 500, reason |-> "Internal Server Error"]]
ErrConnection == [cls |-> "ConnectionError", has_response |-> FALSE, response |-> NoResponse]

NoErr == [cls |-> None, has_response |-> FALSE, response |-> NoResponse]

\* Failures any remote call can meet, whatever the store holds.
TransientErrors == {ErrHttp4xx, ErrClient, ErrHttp5xx, ErrConnection}

VARIABLES
    store,          \* remote state: resource name -> (id -> object)
    pc,             \* where each invocation is: idle, ready, put, done
    resource_name,  \* App.resource_name
    action,         \* the controller method the subcommand called
    data,           \* the method's data argument (update: after pop('id'))
    obj_id,         \* update: the identifier popped from data
    obj,            \* update: the object its GET returned
    payload,        \* update: the body built for the PUT
    objects,        \* list: the objects handed to print_list
    fields,         \* list: the fields handed to map_fields
    calls,          \* HTTP verbs the invocation has issued, in order
    failed,         \* a remote call of the invocation has raised
    stdout,         \* what the invocation wrote to standard output
    exit,           \* how it ended: none, ok, fatal, usage, uncaught
    errmsg,         \* the message of ctx.exit
    printed,        \* list: print_list was called
    put_seen        \* update: whether its PUT went through and, if so, whether a
                    \* field it left alone changed between its GET and its PUT:
                    \* none, clean, raced

vars == <<store, pc, resource_name, action, data, obj_id, obj, payload, objects,
          fields, calls, failed, stdout, exit, errmsg, printed, put_seen>>

NoMsg == [kind |-> None]
NoDict == <<>>

\* ------------------------------------------------------------ the server
SchemaSet(rn) == SeqRange(Schema(rn))

\* The object the server keeps for a body: the schema's fields, Empty where
\* the body is silent, under the identifier id.
Stored(rn, id, body) ==
    [f \in {"id"} \cup SchemaSet(rn) |->
        IF f = "id" THEN id
        ELSE IF f \in DOMAIN body THEN body[f] ELSE Empty]

\* A filter of None does not constrain.
Matches(o, filters) ==
    \A k \in DOMAIN filters :
        filters[k] = None \/ (k \in DOMAIN o /\ o[k] = filters[k])

RECURSIVE Matching(_, _, _)
\* The objects of collection c that match, by identifier, from the n-th on.
Matching(c, filters, n) ==
    IF n > MaxId THEN <<>>
    ELSE (IF IdName[n] \in DOMAIN c /\ Matches(c[IdName[n]], filters)
          THEN <<c[IdName[n]]>> ELSE <<>>) \o Matching(c, filters, n + 1)

Answer(st, value) == [ok |-> TRUE, err |-> NoErr, value |-> value, store |-> st]

Raise(st, err) == [ok |-> FALSE, err |-> err, value |-> NoDict, store |-> st]

Failures(st) == {Raise(st, e) : e \in TransientErrors}

FreeIds(c) == {n \in 1..MaxId : IdName[n] \notin DOMAIN c}

\* POST to the collection: the server gives the object the first free id.
Post(st, rn, body) ==
    Failures(st) \cup
    (IF FreeIds(st[rn]) = {} THEN {}
     ELSE LET n == CHOOSE m \in FreeIds(st[rn]) : \A k \in FreeIds(st[rn]) : m <= k
              o == Stored(rn, IdName[n], body)
          IN {Answer([st EXCEPT ![rn] = (IdName[n] :> o) @@ st[rn]], o)})

\* GET of the collection: {data: {<resource_name>: [objects]}}; a server with
\* nothing to return may also answer with an empty (falsy) body.
GetList(st, rn, filters) ==
    LET found == Matching(st[rn], filters, 1)
    IN Failures(st) \cup {Answer(st, [falsy |-> FALSE, data |-> found])}
       \cup (IF found = <<>> THEN {Answer(st, [falsy |-> TRUE, data |-> <<>>])} ELSE {})

\* GET of one object.
GetOne(st, rn, id) ==
    Failures(st) \cup
    (IF id \in DOMAIN st[rn] THEN {Answer(st, st[rn][id])} ELSE {Raise(st, Err404)})

\* PUT replaces the object by the body; PATCH changes only the body's fields.
Put(st, rn, id, body) ==
    Failures(st) \cup
    (IF id \in DOMAIN st[rn]
     THEN {Answer([st EXCEPT ![rn][id] = Stored(rn, id, body)], Stored(rn, id, body))}
     ELSE {Raise(st, Err404)})

Patch(st, rn, id, body) ==
    Failures(st) \cup
    (IF id \in DOMAIN st[rn]
     THEN LET o == [f \in DOMAIN st[rn][id] |->
                      IF f # "id" /\ f \in DOMAIN body THEN body[f] ELSE st[rn][id][f]]
          IN {Answer([st EXCEPT ![rn][id] = o], o)}
     ELSE {Raise(st, Err404)})

\* DELETE of one object.
Delete(st, rn, id) ==
    Failures(st) \cup
    (IF id \in DOMAIN st[rn]
     THEN {Answer([st EXCEPT ![rn] = Restrict(st[rn], DOMAIN st[rn] \ {id})], NoDict)}
     ELSE {Raise(st, Err404)})

\* One round trip: the verb, on the collection (id = None) or on one object.
Remote(verb, st, rn, id, body) ==
    CASE verb = "post" /\ id = None -> Post(st, rn, body)
      [] verb = "get" /\ id = None -> GetList(st, rn, body)
      [] verb = "get" /\ id # None -> GetOne(st, rn, id)
      [] verb = "put" /\ id # None -> Put(st, rn, id, body)
      [] verb = "patch" /\ id # None -> Patch(st, rn, id, body)
      [] verb = "delete" /\ id # None -> Delete(st, rn, id)
      [] OTHER -> {Raise(st, ErrHttp4xx)}

\* ------------------------------------------------------- CLI.get_command
\* What __import__('pynsot.commands.cmd_' + name) does.
Import(name) ==
    IF name \notin DOMAIN CMD_FOLDER THEN "ImportError"
    ELSE CASE CMD_FOLDER[name] = "import_error" -> "ImportError"
           [] CMD_FOLDER[name] = "syntax_error" -> "SyntaxError"
           [] OTHER -> "module"

\* get_command: the try block catches ImportError and returns None; mod.cli
\* is read after the try block.
get_command(name) ==
    LET mod == Import(name)
    IN CASE mod = "ImportError" ->
                [returned |-> TRUE, found |-> FALSE, cli |-> <<>>, raised |-> None]
         [] mod = "SyntaxError" ->
                [returned |-> FALSE, found |-> FALSE, cli |-> <<>>, raised |-> "SyntaxError"]
         [] CMD_FOLDER[name] = "no_cli" ->
                [returned |-> FALSE, found |-> FALSE, cli |-> <<>>, raised |-> "AttributeError"]
         [] OTHER -> [returned |-> TRUE, found |-> TRUE, cli |-> name, raised |-> None]

\* ------------------------------------------------------------------- App
\* App.singular: the resource name without a trailing "s".
singular(rn) ==
    IF Len(rn) > 0 /\ rn[Len(rn)] = "s" THEN SubSeq(rn, 1, Len(rn) - 1) ELSE rn

\* How a controller method leaves the invocation.
Outcome(how, msg, out) == [exit |-> how, errmsg |-> msg, stdout |-> out]

\* ctx.exit(msg): the process ends with msg and a non-zero exit code.
ctx_exit(msg) == Outcome("fatal", msg, <<>>)

\* An exception no except clause matches: the traceback ends the process.
Uncaught(cls) == Outcome("uncaught", [kind |-> "traceback", err |-> cls], <<>>)

\* App.handle_error.  The text of pretty_dict(data) is left out of the
\* messages: no property depends on it.
handle_error(act, d, err, rn) ==
    IF err.has_response
    THEN ctx_exit([kind |-> "FATAL", status_code |-> err.response.status_code,
                   reason |-> err.response.reason, action |-> act,
                   singular |-> singular(rn)])
    ELSE ctx_exit([kind |-> "FATAL", err |-> err.cls])

\* App.handle_response: 'Successfully %sed %s with args: %s!'
handle_response(act, d, rn) ==
    Outcome("ok", NoMsg,
            <<[kind |-> "Successfully", action |-> act, singular |-> singular(rn)]>>)

\* The except clauses of add, list, remove and update name HttpClientError.
Caught(err) == err.cls = "HttpClientError"

\* try: <remote call> except HttpClientError as err: handle_error(...)
on_raise(act, d, err, rn) ==
    IF Caught(err) THEN handle_error(act, d, err, rn) ELSE Uncaught(err.cls)

\* update calling the verb ACTION_MAP names instead of put.
VerbsOf_action_map(act) ==
    CASE act = "add" -> <<"post">>
      [] act = "list" -> <<"get">>
      [] act = "remove" -> <<"delete">>
      [] act = "update" -> <<"get", ACTION_MAP.update>>

\* The remote calls each controller method makes, in order.
VerbsOf(act) ==
    CASE act = "add" -> <<"post">>
      [] act = "list" -> <<"get">>
      [] act = "remove" -> <<"delete">>
      [] act = "update" -> <<"get", "put">>

\* map_fields leaving out the fields it cannot map.
map_fields_lenient(flds, fields_map) ==
    LET known == SelectSeq(flds, LAMBDA f : f \in DOMAIN fields_map)
    IN [ok |-> TRUE, headers |-> [n \in 1..Len(known) |-> fields_map[known[n]]]]

\* App.map_fields: headers, or ctx.exit when a field has no entry.
map_fields(flds, fields_map) ==
    IF \A n \in 1..Len(flds) : flds[n] \in DOMAIN fields_map
    THEN [ok |-> TRUE, headers |-> [n \in 1..Len(flds) |-> fields_map[flds[n]]]]
    ELSE [ok |-> FALSE, headers |-> <<>>]

KeyOrder == <<"id", "name", "hostname", "description">>

\* dict.keys()
keys(o) == SelectSeq(KeyOrder, LAMBDA k : k \in DOMAIN o)

NoFields == [is_none |-> TRUE, names |-> <<>>]

Fields(names) == [is_none |-> FALSE, names |-> names]

\* The fields print_list displays: all keys of the first object by default.
display_fields(objs, flds) ==
    IF flds.is_none THEN (IF objs = <<>> THEN <<>> ELSE keys(objs[1])) ELSE flds.names

\* App.print_list
print_list(objs, flds, t_height) ==
    IF flds.is_none /\ objs = <<>> THEN Uncaught("IndexError")
    ELSE LET fs == display_fields(objs, flds)
             m == map_fields(fs, FIELDS_MAP)
         IN IF ~m.ok
            THEN ctx_exit([kind |-> "Could not map field"])
            ELSE IF \E n \in 1..Len(objs) : \E k \in 1..Len(fs) : fs[k] \notin DOMAIN objs[n]
            THEN Uncaught("KeyError")
            ELSE Outcome("ok", NoMsg,
                         <<[kind |-> "table", headers |-> m.headers,
                            rows |-> [n \in 1..Len(objs) |->
                                         [k \in 1..Len(fs) |-> objs[n][fs[k]]]],
                            pager |-> Len(objs) > t_height]>>)

\* App.list, after the GET answered: lines 200-209.
list_objects(result) == IF result.falsy THEN <<>> ELSE result.data

\* list testing the answer instead of the objects before it prints.
list_done_if_result(flds, t_height, result, rn) ==
    IF ~result.falsy
    THEN [print_list |-> TRUE, out |-> print_list(list_objects(result), flds, t_height)]
    ELSE [print_list |-> FALSE,
          out |-> Outcome("ok", NoMsg,
                          <<[kind |-> "No found matching", singular |-> singular(rn)]>>)]

list_done(flds, t_height, result, rn) ==
    LET objs == list_objects(result)
    IN IF objs # <<>>
       THEN [print_list |-> TRUE, out |-> print_list(objs, flds, t_height)]
       ELSE [print_list |-> FALSE,
             out |-> Outcome("ok", NoMsg,
                             <<[kind |-> "No found matching", singular |-> singular(rn)]>>)]

\* pynsot.models.ApiModel: the fetched object as a mapping of its fields.
ApiModel(o) == o

\* update without payload.pop('id').
base_payload_with_id(o) == ApiModel(o)

\* App.update, lines 234-236: payload = dict(model) without 'id'.
base_payload(o) == Restrict(ApiModel(o), DOMAIN ApiModel(o) \ {"id"})

RECURSIVE overlay_loop(_, _, _)
\* for k, v in data.items(): if v is not None: payload[k] = v
overlay_loop(p, d, ks) ==
    IF ks = <<>> THEN p
    ELSE overlay_loop(IF d[Head(ks)] # None
                      THEN (Head(ks) :> d[Head(ks)]) @@ p ELSE p,
                      d, Tail(ks))

\* update without the test `if v is not None`.
overlay_every_param(p, d) ==
    [k \in DOMAIN p \cup DOMAIN d |-> IF k \in DOMAIN d THEN d[k] ELSE p[k]]

\* App.update, lines 239-241: the params that are not None go on top.
overlay(p, d) == overlay_loop(p, d, keys(d))

\* update sending only the params, without the fetched object under them.
update_fetch_params_only(d, r, rn) ==
    IF r.ok
    THEN [go_on |-> TRUE, payload |-> overlay(NoDict, d),
          outcome |-> Outcome("none", NoMsg, <<>>)]
    ELSE [go_on |-> FALSE, payload |-> NoDict, outcome |-> on_raise("update", d, r.err, rn)]

\* update going on to the PUT after its GET raised.
update_fetch_go_on(d, r, rn) ==
    [go_on |-> TRUE,
     payload |-> IF r.ok THEN overlay(base_payload(r.value), d) ELSE overlay(NoDict, d),
     outcome |-> Outcome("none", NoMsg, <<>>)]

\* App.update, lines 229-241: what follows the GET of the object.
update_fetch(d, r, rn) ==
    IF r.ok
    THEN [go_on |-> TRUE, payload |-> overlay(base_payload(r.value), d),
          outcome |-> Outcome("none", NoMsg, <<>>)]
    ELSE [go_on |-> FALSE, payload |-> NoDict, outcome |-> on_raise("update", d, r.err, rn)]

\* ---------------------------------------------------------------- inputs
\* Params: some fields of the resource, each a value or None.
Params(rn) == UNION {[S -> Values \cup {None}] : S \in SUBSET SchemaSet(rn)}

\* The body of a create: every field of the resource.
AddData(rn) == [SchemaSet(rn) -> Values]

WithId(p, id) == [k \in DOMAIN p \cup {"id"} |-> IF k = "id" THEN id ELSE p[k]]

IdParams(rn) == {WithId(p, id) : p \in Params(rn), id \in Ids}

FieldChoices == {NoFields, Fields(<<"id">>), Fields(<<"id", "name">>),
                 Fields(<<"id", "hostname">>)}

\* Terminal heights click.get_terminal_size can report.
TermHeights == {0, 24}

\* ------------------------------------------------------------------ state
InitOf(procs) ==
    /\ store = [rn \in ResourceNames |-> NoDict]
    /\ pc = [i \in procs |-> "idle"]
    /\ resource_name = [i \in procs |-> <<>>]
    /\ action = [i \in procs |-> None]
    /\ data = [i \in procs |-> NoDict]
    /\ obj_id = [i \in procs |-> None]
    /\ obj = [i \in procs |-> NoDict]
    /\ payload = [i \in procs |-> NoDict]
    /\ objects = [i \in procs |-> <<>>]
    /\ fields = [i \in procs |-> <<>>]
    /\ calls = [i \in procs |-> <<>>]
    /\ failed = [i \in procs |-> FALSE]
    /\ stdout = [i \in procs |-> <<>>]
    /\ exit = [i \in procs |-> "none"]
    /\ errmsg = [i \in procs |-> NoMsg]
    /\ printed = [i \in procs |-> FALSE]
    /\ put_seen = [i \in procs |-> "none"]

\* One command line at a time.
Init == InitOf({1})

\* Two command lines at once.
PairInit == InitOf(Invocations)

\* The process ends as out says; its locals go with it.
Finish(i, out) ==
    /\ pc' = [pc EXCEPT ![i] = "done"]
    /\ exit' = [exit EXCEPT ![i] = out.exit]
    /\ errmsg' = [errmsg EXCEPT ![i] = out.errmsg]
    /\ stdout' = [stdout EXCEPT ![i] = out.stdout]
    /\ data' = [data EXCEPT ![i] = NoDict]
    /\ obj_id' = [obj_id EXCEPT ![i] = None]
    /\ obj' = [obj EXCEPT ![i] = NoDict]
    /\ payload' = [payload EXCEPT ![i] = NoDict]

\* The invocation makes the remote call whose answer is r.
Called(i, verb, r) ==
    /\ store' = r.store
    /\ calls' = [calls EXCEPT ![i] = Append(@, verb)]
    /\ failed' = [failed EXCEPT ![i] = ~r.ok]

\* `nsot <name> ...`: the dispatcher resolves the subcommand and builds App.
Invoke(i, name) ==
    /\ pc[i] = "idle"
    /\ LET g == get_command(name)
       IN IF g.returned /\ g.found
          THEN /\ pc' = [pc EXCEPT ![i] = "ready"]
               /\ resource_name' = [resource_name EXCEPT ![i] = g.cli]
               /\ UNCHANGED <<exit, errmsg, stdout, data, obj_id, obj, payload>>
          ELSE /\ Finish(i, IF g.returned
                            THEN Outcome("usage", [kind |-> "No such command"], <<>>)
                            ELSE Uncaught(g.raised))
               /\ UNCHANGED resource_name
    /\ UNCHANGED <<store, action, objects, fields, calls, failed, printed, put_seen>>

\* App.add
Add(i, d) ==
    /\ pc[i] = "ready"
    /\ action' = [action EXCEPT ![i] = "add"]
    /\ \E r \in Remote(VerbsOf("add")[1], store, resource_name[i], None, d) :
          /\ Called(i, VerbsOf("add")[1], r)
          /\ Finish(i, IF r.ok THEN handle_response("add", d, resource_name[i])
                       ELSE on_raise("add", d, r.err, resource_name[i]))
    /\ UNCHANGED <<resource_name, objects, fields, printed, put_seen>>

\* App.list
List(i, d, flds, t_height) ==
    /\ pc[i] = "ready"
    /\ action' = [action EXCEPT ![i] = "list"]
    /\ \E r \in Remote(VerbsOf("list")[1], store, resource_name[i], None, d) :
          LET l == list_done(flds, t_height, r.value, resource_name[i])
          IN /\ Called(i, VerbsOf("list")[1], r)
             /\ objects' = [objects EXCEPT ![i] = IF r.ok THEN list_objects(r.value) ELSE <<>>]
             /\ printed' = [printed EXCEPT ![i] = r.ok /\ l.print_list]
             /\ fields' = [fields EXCEPT ![i] =
                              IF r.ok /\ l.print_list
                              THEN display_fields(list_objects(r.value), flds) ELSE <<>>]
             /\ Finish(i, IF r.ok THEN l.out
                          ELSE on_raise("list", d, r.err, resource_name[i]))
    /\ UNCHANGED <<resource_name, put_seen>>

\* App.remove
Remove(i, d) ==
    /\ pc[i] = "ready"
    /\ action' = [action EXCEPT ![i] = "remove"]
    /\ \E r \in Remote(VerbsOf("remove")[1], store, resource_name[i], d["id"], NoDict) :
          /\ Called(i, VerbsOf("remove")[1], r)
          /\ Finish(i, IF r.ok THEN handle_response("remove", d, resource_name[i])
                       ELSE on_raise("remove", d, r.err, resource_name[i]))
    /\ UNCHANGED <<resource_name, objects, fields, printed, put_seen>>

\* App.update up to the loop over the params: pop the id, GET, build payload.
UpdateGet(i, d) ==
    /\ pc[i] = "ready"
    /\ action' = [action EXCEPT ![i] = "update"]
    /\ \E r \in Remote(VerbsOf("update")[1], store, resource_name[i], d["id"], NoDict) :
          LET u == update_fetch(Restrict(d, DOMAIN d \ {"id"}), r, resource_name[i])
          IN /\ Called(i, VerbsOf("update")[1], r)
             /\ IF u.go_on
                THEN /\ pc' = [pc EXCEPT ![i] = "put"]
                     /\ obj_id' = [obj_id EXCEPT ![i] = d["id"]]
                     /\ data' = [data EXCEPT ![i] = Restrict(d, DOMAIN d \ {"id"})]
                     /\ obj' = [obj EXCEPT ![i] = r.value]
                     /\ payload' = [payload EXCEPT ![i] = u.payload]
                     /\ UNCHANGED <<exit, errmsg, stdout>>
                ELSE Finish(i, u.outcome)
    /\ UNCHANGED <<resource_name, objects, fields, printed, put_seen>>

\* App.update from "And now we call PUT".
UpdatePut(i) ==
    /\ pc[i] = "put"
    /\ \E r \in Remote(VerbsOf("update")[2], store, resource_name[i], obj_id[i], payload[i]) :
          /\ Called(i, VerbsOf("update")[2], r)
          /\ put_seen' = [put_seen EXCEPT ![i] =
                 IF ~r.ok THEN "none"
                 ELSE IF \A f \in DOMAIN obj[i] \ {"id"} :
                            (f \in DOMAIN data[i] /\ data[i][f] # None)
                            \/ store[resource_name[i]][obj_id[i]][f] = obj[i][f]
                      THEN "clean"
                      ELSE "raced"]
          /\ Finish(i, IF r.ok THEN handle_response("update", data[i], resource_name[i])
                       ELSE on_raise("update", data[i], r.err, resource_name[i]))
    /\ UNCHANGED <<resource_name, action, objects, fields, printed>>

\* The process is gone; the next command line starts afresh.
Exit(i) ==
    /\ pc[i] = "done"
    /\ pc' = [pc EXCEPT ![i] = "idle"]
    /\ resource_name' = [resource_name EXCEPT ![i] = <<>>]
    /\ action' = [action EXCEPT ![i] = None]
    /\ objects' = [objects EXCEPT ![i] = <<>>]
    /\ fields' = [fields EXCEPT ![i] = <<>>]
    /\ calls' = [calls EXCEPT ![i] = <<>>]
    /\ failed' = [failed EXCEPT ![i] = FALSE]
    /\ stdout' = [stdout EXCEPT ![i] = <<>>]
    /\ exit' = [exit EXCEPT ![i] = "none"]
    /\ errmsg' = [errmsg EXCEPT ![i] = NoMsg]
    /\ printed' = [printed EXCEPT ![i] = FALSE]
    /\ put_seen' = [put_seen EXCEPT ![i] = "none"]
    /\ UNCHANGED <<store, data, obj_id, obj, payload>>

Next ==
    \/ \E i \in DOMAIN pc : \E name \in CommandNames : Invoke(i, name)
    \/ \E i \in DOMAIN pc : \E d \in AddData(resource_name[i]) : Add(i, d)
    \/ \E i \in DOMAIN pc : \E d \in Params(resource_name[i]) :
          \E flds \in FieldChoices : \E h \in TermHeights : List(i, d, flds, h)
    \/ \E i \in DOMAIN pc : \E d \in IdParams(resource_name[i]) : Remove(i, d)
    \/ \E i \in DOMAIN pc : \E d \in IdParams(resource_name[i]) : UpdateGet(i, d)
    \/ \E i \in DOMAIN pc : UpdatePut(i)
    \/ \E i \in DOMAIN pc : Exit(i)

Spec == Init /\ [][Next]_vars

\* A command line that gives one option besides the id.
OneParam(rn) == {WithId(p, id) : p \in {q \in Params(rn) : Cardinality(DOMAIN q) = 1},
                                 id \in Ids}

\* Two command lines `nsot sites add|update|remove` at once.
PairNext ==
    \/ \E i \in DOMAIN pc : Invoke(i, sites)
    \/ \E i \in DOMAIN pc : \E d \in AddData(resource_name[i]) : Add(i, d)
    \/ \E i \in DOMAIN pc : \E id \in Ids : Remove(i, WithId(NoDict, id))
    \/ \E i \in DOMAIN pc : \E d \in OneParam(resource_name[i]) : UpdateGet(i, d)
    \/ \E i \in DOMAIN pc : UpdatePut(i)
    \/ \E i \in DOMAIN pc : Exit(i)

PairSpec == PairInit /\ [][PairNext]_vars

\* ================================================================ claims
Procs == DOMAIN pc

\* The params of an update that leave field f alone: not supplied, or None.
Unsupplied(i) ==
    {f \in DOMAIN obj[i] \ {"id"} : f \notin DOMAIN data[i] \/ data[i][f] = None}

\* Invocation i's PUT goes through in this step.
PutApplied(i) == pc[i] = "put" /\ pc'[i] = "done" /\ ~failed'[i]

\* C1: the body update hands to the PUT is the fetched object without its
\* id, with exactly the params that are not None on top; the fields that the
\* params leave out or give as None keep the fetched value.
C1_UpdateBody ==
    \A i \in Procs :
        pc[i] = "put" =>
            /\ DOMAIN payload[i] =
                   (DOMAIN obj[i] \ {"id"}) \cup {k \in DOMAIN data[i] : data[i][k] # None}
            /\ \A k \in DOMAIN payload[i] :
                   IF k \in DOMAIN data[i] /\ data[i][k] # None
                   THEN payload[i][k] = data[i][k]
                   ELSE payload[i][k] = obj[i][k]

\* An update about to PUT, with one param None and another changing a field.
C1_Witness ==
    \E i \in Procs :
        /\ pc[i] = "put"
        /\ \E k \in DOMAIN data[i] : data[i][k] = None /\ payload[i][k] = obj[i][k]
        /\ \E k \in DOMAIN data[i] : data[i][k] # None /\ data[i][k] # obj[i][k]
                                     /\ payload[i][k] = data[i][k]

\* C2: the body update hands to the PUT never has the key id.
C2_NoIdInBody == \A i \in Procs : pc[i] = "put" => "id" \notin DOMAIN payload[i]

\* An update about to PUT whose fetched object carries its id.
C2_Witness ==
    \E i \in Procs : pc[i] = "put" /\ "id" \in DOMAIN obj[i] /\ obj[i]["id"] = obj_id[i]
                     /\ payload[i] # NoDict

\* C3, as claimed: whatever the interleaving, a PUT leaves every field its
\* update did not supply at the value the remote object had just before it.
C3_KeepsValueBeforePut ==
    [][\A i \in Procs :
          PutApplied(i) =>
              \A f \in Unsupplied(i) :
                  store'[resource_name[i]][obj_id[i]][f] = store[resource_name[i]][obj_id[i]][f]]_vars

\* C3, amended: a PUT leaves every field its update did not supply at the
\* value the update's own GET returned; that is the value just before the PUT
\* when nothing was written to the object between the GET and the PUT.
C3_KeepsValueOfGet ==
    [][\A i \in Procs :
          PutApplied(i) =>
              \A f \in Unsupplied(i) :
                  /\ store'[resource_name[i]][obj_id[i]][f] = obj[i][f]
                  /\ store[resource_name[i]][obj_id[i]] = obj[i] =>
                        store'[resource_name[i]][obj_id[i]][f]
                            = store[resource_name[i]][obj_id[i]][f]]_vars

\* An update whose PUT went through after another command line changed a
\* field it did not supply, between its GET and its PUT.
C3_Witness == \E i \in Procs : pc[i] = "done" /\ exit[i] = "ok" /\ put_seen[i] = "raced"

\* The verb the claim gives each action.
ClaimedVerb(act) ==
    CASE act = "add" -> "post"
      [] act = "list" -> "get"
      [] act = "update" -> "put"
      [] act = "remove" -> "delete"

\* C4, as claimed: every action issues its one verb and no other.
C4_OneVerbEach ==
    \A i \in Procs :
        action[i] # None =>
            \A n \in 1..Len(calls[i]) : calls[i][n] = ClaimedVerb(action[i])

\* C4, amended: add issues one POST, list one GET, remove one DELETE, each the
\* verb ACTION_MAP names; update issues a GET of the object and then, only when
\* the GET answered, one PUT (not the PATCH of ACTION_MAP); nothing else.
C4_VerbsIssued ==
    \A i \in Procs :
        action[i] # None =>
            IF action[i] = "update"
            THEN /\ calls[i] \in {<<"get">>, <<"get", "put">>}
                 /\ pc[i] = "put" => calls[i] = <<"get">>
                 /\ pc[i] = "done" /\ calls[i] = <<"get">> => failed[i]
                 /\ pc[i] = "done" /\ ~failed[i] => calls[i] = <<"get", "put">>
            ELSE /\ calls[i] = <<ACTION_MAP[action[i]]>>
                 /\ calls[i] = <<ClaimedVerb(action[i])>>

\* An update that ended well after its GET and its PUT.
C4_Witness ==
    \E i \in Procs : pc[i] = "done" /\ action[i] = "update" /\ exit[i] = "ok"
                     /\ calls[i] = <<"get", "put">>

\* C5: every failure of a remote call ends the invocation with a [FATAL]
\* message and a non-zero exit; none leaves the controller uncaught.
C5_EveryFailureFatal ==
    \A i \in Procs :
        failed[i] => pc[i] = "done" /\ exit[i] = "fatal" /\ errmsg[i].kind = "FATAL"

\* C6: once a remote call of an invocation has failed, the invocation is over:
\* it writes no success message and no table, and issues no further call.
C6_FailureIsTerminal ==
    /\ [](\A i \in Procs :
             failed[i] => pc[i] = "done" /\ stdout[i] = <<>> /\ exit[i] \in {"fatal", "uncaught"})
    /\ [][\A i \in Procs :
             failed[i] => calls'[i] = calls[i] \/ (pc'[i] = "idle" /\ calls'[i] = <<>>)]_vars

\* An update whose GET failed: it ended with the GET as its only call.
C6_Witness ==
    \E i \in Procs : failed[i] /\ action[i] = "update" /\ calls[i] = <<"get">>
                     /\ pc[i] = "done"

\* C7: a list whose answer holds no object prints the one line "No <singular>
\* found matching args", exits 0 and does not call print_list.
C7_EmptyListIsNoError ==
    \A i \in Procs :
        pc[i] = "done" /\ action[i] = "list" /\ ~failed[i] /\ objects[i] = <<>> =>
            /\ exit[i] = "ok"
            /\ stdout[i] = <<[kind |-> "No found matching",
                              singular |-> singular(resource_name[i])]>>
            /\ ~printed[i]

\* A list that found nothing and said so.
C7_Witness ==
    \E i \in Procs : /\ pc[i] = "done" /\ action[i] = "list" /\ ~failed[i]
                     /\ objects[i] = <<>> /\ exit[i] = "ok" /\ Len(stdout[i]) = 1

\* C8: print_list with a field that FIELDS_MAP does not have ends fatally and
\* writes neither header nor row.
C8_MapFailsClosed ==
    \A i \in Procs :
        printed[i] /\ (\E n \in 1..Len(fields[i]) : fields[i][n] \notin DOMAIN FIELDS_MAP) =>
            exit[i] = "fatal" /\ stdout[i] = <<>>

\* print_list was called for some objects with a field it could not map.
C8_Witness ==
    \E i \in Procs : /\ printed[i] /\ objects[i] # <<>> /\ exit[i] = "fatal"
                     /\ \E n \in 1..Len(fields[i]) : fields[i][n] \notin DOMAIN FIELDS_MAP

\* C9: resolving a name never crashes: whatever is wrong with cmd_<name>, the
\* outcome is "not found"; a plugin that loads gives its command.
C9_ResolveNeverCrashes ==
    \A i \in Procs :
        /\ pc[i] = "done" /\ action[i] = None => exit[i] = "usage"
        /\ pc[i] = "ready" => resource_name[i] \in {n \in DOMAIN CMD_FOLDER : CMD_FOLDER[n] = "ok"}

\* The table shows every object of objs, under all the keys of the first.
Shows(out, objs) ==
    /\ Len(out) = 1
    /\ out[1].kind = "table"
    /\ Len(out[1].rows) = Len(objs)
    /\ \A n \in 1..Len(objs) :
          out[1].rows[n] = [k \in 1..Len(keys(objs[n])) |-> objs[n][keys(objs[n])[k]]]

\* C10: against one store, a list that matches objects exits 0 and shows them;
\* an update that supplies only the id and a description leaves the object
\* with that description and all else as it was; after a remove the object is
\* gone, and a list that matches nothing exits 0 with the empty-result line.
C10_EndToEnd ==
    [][\A i \in Procs :
          /\ (/\ pc[i] = "ready" /\ action'[i] = "list" /\ ~failed'[i]
              /\ objects'[i] # <<>> /\ fields'[i] = keys(objects'[i][1])) =>
                 exit'[i] = "ok" /\ Shows(stdout'[i], objects'[i])
          /\ (/\ pc[i] = "ready" /\ action'[i] = "list" /\ ~failed'[i]
              /\ objects'[i] = <<>>) =>
                 exit'[i] = "ok" /\ stdout'[i][1].kind = "No found matching"
          /\ PutApplied(i) /\ DOMAIN data[i] = {"description"}
                           /\ data[i]["description"] # None =>
                 store'[resource_name[i]][obj_id[i]] =
                     [store[resource_name[i]][obj_id[i]]
                         EXCEPT !["description"] = data[i]["description"]]
          /\ (pc[i] = "ready" /\ action'[i] = "remove" /\ ~failed'[i]) =>
                 DOMAIN store'[resource_name[i]] \subseteq DOMAIN store[resource_name[i]]
                 /\ DOMAIN store'[resource_name[i]] # DOMAIN store[resource_name[i]]]_vars

====
